---- MODULE Spec2Model ----
(***************************************************************************)
(* Scan orchestration engine of the Substack Friend Finder extension:     *)
(* the injected page script (injected.js) together with the content-script *)
(* bridge (content.js) that relays popup commands to it.  One browser tab; *)
(* sessionStorage survives page loads, every script variable does not.     *)
(***************************************************************************)
EXTENDS Integers, Sequences, FiniteSets, TLC

(* ------------------------------ bounds -------------------------------- *)
MaxScans == 2        \* START_SCAN commands issued by the popup
MaxCancels == 1      \* CANCEL_SCAN commands issued by the popup
MaxSubscriptions == 3   \* subscriptions of a profile handed to the planner
MaxCount == 12       \* largest subscriber count handed to the weight function

(* --------------------------- program constants ------------------------ *)
ONE_HOUR == 60       \* staleness threshold, in minutes
FALLBACK_COUNT == 1000   \* the count a falsy subscriber count is scored with
DELAY_MIN == 8000        \* randomDelay's default bounds, in milliseconds
DELAY_MAX == 15000
FIRST_DELAY_MIN == 2000  \* the bounds startScan passes before the first visit
FIRST_DELAY_MAX == 4000

Null == "null"                             \* a missing string value
NoCount == -1                              \* a missing subscriber_count
NoState == [absent |-> TRUE]               \* getState() returns null
NoCommand == [type |-> "none"]
Home == [sub |-> <<>>, kind |-> "home"]    \* a page that is no /@<sub>/<kind>
NoNav == [sub |-> <<>>, kind |-> "none"]

(* ---------------------------- input domains --------------------------- *)
Usernames == {"H1", "zed"}

\* a publication as the profile endpoint returns it
Pub(id, sub, author, primary, count) ==
  [id |-> id, subdomain |-> sub, author_id |-> author,
   primary_user_id |-> primary, subscriber_count |-> count]

PubBig == Pub("n2", <<"a", "b">>, Null, "p2", 9)
PubNiche == Pub("n1", <<"a">>, "p1", Null, 5)
PubNoSubdomain == Pub("n3", <<>>, "p3", Null, NoCount)
PubNoAuthor == Pub("n4", <<"c">>, Null, Null, 1)

\* subscription lists a profile may carry (each entry is sub.publication;
\* a missing subdomain is the empty name, which is falsy like undefined)
SubscriptionLists ==
  { <<>>,
    <<PubNoSubdomain, PubNoAuthor>>,
    <<PubNiche>>,
    <<PubBig, PubNoSubdomain, PubNiche>> }

\* what the profile fetch can produce: a failure or a profile
FetchFailed == [ok |-> FALSE]
Profile(subs) == [ok |-> TRUE, subscriptions |-> subs]
ProfileResponses == {FetchFailed} \cup {Profile(subs) : subs \in SubscriptionLists}

\* an extracted person record ("" is the empty / missing value of a field)
User(h, n, b, photo, pub) ==
  [handle |-> h, name |-> n, bio |-> b, photo_url |-> photo,
   primaryPublication |-> pub]

\* a user object of the subscriber-lists schema: handle may be missing and
\* username present
ApiUser(h, uname, n, b, photo, pub) ==
  [handle |-> h, username |-> uname, name |-> n, bio |-> b,
   photo_url |-> photo, primaryPublication |-> pub]

ApiUserPlain == ApiUser("h1", "", "h1", "", "", "")
ApiUserRich == ApiUser("h1", "", "One", "y", "img", "pub")
ApiUserByUsername == ApiUser("", "h2", "Two", "x", "", "")
ApiUserNameless == ApiUser("", "", "", "x", "", "")

\* list -> group -> user payloads (a missing groups / users array is empty)
ListsOne == << << <<ApiUserPlain>> >> >>
ListsRepeat == << << <<ApiUserPlain, ApiUserRich>>, <<ApiUserPlain>> >> >>
ListsThree == << << <<ApiUserNameless>>, <<>> >>, << <<ApiUserByUsername, ApiUserRich>> >> >>

\* what fetchSubscriberList can hand to getUsersForPage: null (non-OK status,
\* network error, invalid JSON), a payload of the schema, or a payload of
\* another shape (subscriberLists not iterable, a null list, group or user)
ApiFailed == [ok |-> FALSE]
ApiPayload(lists) == [ok |-> TRUE, shaped |-> TRUE, subscriberLists |-> lists]
ApiMisshaped == [ok |-> TRUE, shaped |-> FALSE]
ApiResponses ==
  { ApiFailed, ApiMisshaped, ApiPayload(<<>>), ApiPayload(ListsRepeat),
    ApiPayload(ListsThree) }

\* the __NEXT_DATA__ element: missing, not parsable (or of another shape:
\* any exception inside the try block), or parsed with subscriberLists under
\* pageProps, pageProps.initialData and the first dehydrated query
NoLists == [has |-> FALSE]
Lists(lists) == [has |-> TRUE, lists |-> lists]
NextAbsent == [present |-> FALSE]
NextUnparsable == [present |-> TRUE, parses |-> FALSE]
NextParsed(direct, initial, dehydrated) ==
  [present |-> TRUE, parses |-> TRUE, direct |-> direct, initial |-> initial,
   dehydrated |-> dehydrated]
NextDatas ==
  { NextAbsent, NextUnparsable,
    NextParsed(NoLists, NoLists, NoLists),
    NextParsed(Lists(<<>>), Lists(ListsThree), NoLists),
    NextParsed(NoLists, NoLists, Lists(ListsOne)) }

\* an a[href*="/@"] element: the handle its href matches ("" when the
\* pattern does not match), its text, and the bio and image of its card
Link(h, text, b, img) == [handle |-> h, text |-> text, bio |-> b, img |-> img]
DomLinks ==
  { <<>>,
    <<Link("", "about", "", "")>>,
    <<Link("h1", "", "", ""), Link("h1", "One", "y", "img")>> }

Subdomains == {<<"a">>, <<"a", "b">>}
PageTypes == {"subscribers", "followers"}
\* host locations: the home page or https://substack.com/@<sub>/<kind>
Locations == {Home} \cup [sub : Subdomains, kind : PageTypes]

(* --------------------------- pure functions --------------------------- *)
IsPrefix(s, t) == Len(s) <= Len(t) /\ SubSeq(t, 1, Len(s)) = s

\* url.includes(`@${subdomain}`): the URL holds a single '@', directly
\* before the profile name, so the test is a prefix test on that name
UrlIncludesAt(loc, subdomain) ==
  loc.kind \in PageTypes /\ IsPrefix(subdomain, loc.sub)

PageUrl(page) == [sub |-> page.subdomain, kind |-> page.pageType]

\* (a.subscriber_count || 0)
CountOrZero(pub) == IF pub.subscriber_count = NoCount THEN 0 ELSE pub.subscriber_count

\* nl.author_id || nl.primary_user_id
AuthorOf(pub) == IF pub.author_id # Null THEN pub.author_id ELSE pub.primary_user_id

Plannable(pub) ==
  pub.subdomain # <<>> /\
  (pub.author_id # Null \/ pub.primary_user_id # Null)

RECURSIVE FilterPlannable(_)
FilterPlannable(subs) ==
  IF subs = <<>> THEN <<>>
  ELSE IF Plannable(Head(subs))
       THEN <<Head(subs)>> \o FilterPlannable(Tail(subs))
       ELSE FilterPlannable(Tail(subs))

\* insertion that keeps the larger counts first
RECURSIVE InsertByCount_Descending(_, _)
InsertByCount_Descending(p, sorted) ==
  IF sorted = <<>> THEN <<p>>
  ELSE IF CountOrZero(p) > CountOrZero(Head(sorted))
       THEN <<p>> \o sorted
       ELSE <<Head(sorted)>> \o InsertByCount_Descending(p, Tail(sorted))

\* stable insertion of p into a list sorted ascending by subscriber count
RECURSIVE InsertByCount(_, _)
InsertByCount(p, sorted) ==
  IF sorted = <<>> THEN <<p>>
  ELSE IF CountOrZero(p) < CountOrZero(Head(sorted))
       THEN <<p>> \o sorted
       ELSE <<Head(sorted)>> \o InsertByCount(p, Tail(sorted))

RECURSIVE SortByCount(_)
SortByCount(pubs) ==
  IF pubs = <<>> THEN <<>>
  ELSE InsertByCount(pubs[Len(pubs)], SortByCount(SubSeq(pubs, 1, Len(pubs) - 1)))

PlanNewsletters(subscriptions) == SortByCount(FilterPlannable(subscriptions))

PageVisit(nl, kind) ==
  [newsletterId |-> nl.id, subdomain |-> nl.subdomain,
   authorId |-> AuthorOf(nl), subscriberCount |-> nl.subscriber_count,
   pageType |-> kind]

RECURSIVE BuildPagesToVisit(_)
BuildPagesToVisit(newsletters) ==
  IF newsletters = <<>> THEN <<>>
  ELSE <<PageVisit(Head(newsletters), "subscribers"),
         PageVisit(Head(newsletters), "followers")>>
       \o BuildPagesToVisit(Tail(newsletters))

StateNewsletter(n) ==
  [id |-> n.id, subdomain |-> n.subdomain, authorId |-> AuthorOf(n),
   subscriberCount |-> n.subscriber_count]

EmptyAppearances == <<>>

\* a cursor that starts before the plan
InitialScanState_BeforePlan(username, subscriptions) ==
  LET newsletters == PlanNewsletters(subscriptions) IN
  [username |-> username,
   newsletters |-> [i \in 1..Len(newsletters) |-> StateNewsletter(newsletters[i])],
   pagesToVisit |-> BuildPagesToVisit(newsletters),
   currentPageIndex |-> -1,
   personAppearances |-> EmptyAppearances]

InitialScanState(username, subscriptions) ==
  LET newsletters == PlanNewsletters(subscriptions) IN
  [username |-> username,
   newsletters |-> [i \in 1..Len(newsletters) |-> StateNewsletter(newsletters[i])],
   pagesToVisit |-> BuildPagesToVisit(newsletters),
   currentPageIndex |-> 0,
   personAppearances |-> EmptyAppearances]

\* a || b on strings
OrElse(a, b) == IF a # "" THEN a ELSE b

\* the record pushed for one user object of the schema
ExtractUser(user) ==
  User(OrElse(user.handle, user.username), user.name, user.bio,
       user.photo_url, user.primaryPublication)

RECURSIVE FlattenUsers(_)
FlattenUsers(users) ==
  IF users = <<>> THEN <<>>
  ELSE <<ExtractUser(Head(users))>> \o FlattenUsers(Tail(users))

RECURSIVE FlattenGroups(_)
FlattenGroups(groups) ==
  IF groups = <<>> THEN <<>>
  ELSE FlattenUsers(Head(groups)) \o FlattenGroups(Tail(groups))

\* the three nested loops over lists, groups and users
RECURSIVE FlattenLists(_)
FlattenLists(lists) ==
  IF lists = <<>> THEN <<>>
  ELSE FlattenGroups(Head(lists)) \o FlattenLists(Tail(lists))

\* extractUsersFromApiResponse on a payload of the schema
extractUsersFromApiResponse(data) == FlattenLists(data.subscriberLists)

\* tier 2: the users found in __NEXT_DATA__ (none when the element is
\* missing, fails to parse, or holds no subscriberLists in the first of the
\* three places that has one)
NextDataUsers(nextData) ==
  IF ~nextData.present \/ ~nextData.parses THEN <<>>
  ELSE LET lists == IF nextData.direct.has THEN nextData.direct
                    ELSE IF nextData.initial.has THEN nextData.initial
                    ELSE nextData.dehydrated
       IN IF lists.has THEN FlattenLists(lists.lists) ELSE <<>>

\* tier 3: one record per distinct handle among the profile links
RECURSIVE ScrapeLinks(_, _)
ScrapeLinks(links, seenHandles) ==
  IF links = <<>> THEN <<>>
  ELSE LET link == Head(links) IN
       IF link.handle = "" \/ link.handle \in seenHandles
       THEN ScrapeLinks(Tail(links), seenHandles)
       ELSE <<User(link.handle, OrElse(link.text, link.handle), link.bio, link.img, "")>>
            \o ScrapeLinks(Tail(links), seenHandles \cup {link.handle})

DomUsers(links) == ScrapeLinks(links, {})

Threw == [threw |-> TRUE]
Returned(users) == [threw |-> FALSE, users |-> users]

\* getUsersForPage returning the embedded and the scraped records together
getUsersForPage_Merged(apiData, nextData, links) ==
  IF apiData.ok /\ ~apiData.shaped THEN Threw
  ELSE IF apiData.ok /\ Len(extractUsersFromApiResponse(apiData)) > 0
       THEN Returned(extractUsersFromApiResponse(apiData))
  ELSE Returned(NextDataUsers(nextData) \o DomUsers(links))

\* getUsersForPage: the first tier with a non-empty result wins; a payload
\* of another shape makes the loops of extractUsersFromApiResponse throw,
\* outside every try block
getUsersForPage(apiData, nextData, links) ==
  IF apiData.ok /\ ~apiData.shaped THEN Threw
  ELSE IF apiData.ok /\ Len(extractUsersFromApiResponse(apiData)) > 0
       THEN Returned(extractUsersFromApiResponse(apiData))
  ELSE IF Len(NextDataUsers(nextData)) > 0
       THEN Returned(NextDataUsers(nextData))
  ELSE Returned(DomUsers(links))

\* every outcome of getUsersForPage over the tier inputs
ExtractionResults ==
  { getUsersForPage(apiData, nextData, links) :
      apiData \in ApiResponses, nextData \in NextDatas, links \in DomLinks }

\* position of handle key among the map's keys, 0 when it is no key
RECURSIVE KeyIndex(_, _)
KeyIndex(appearances, key) ==
  IF appearances = <<>> THEN 0
  ELSE IF appearances[Len(appearances)].handle = key THEN Len(appearances)
  ELSE KeyIndex(SubSeq(appearances, 1, Len(appearances) - 1), key)

\* newsletterIds.includes(newsletterId)
Includes(ids, newsletterId) == \E i \in 1..Len(ids) : ids[i] = newsletterId

\* the loop iteration without the includes() test
TrackUser_AlwaysPush(appearances, user, newsletterId) ==
  IF user.handle = "" THEN appearances
  ELSE LET known == KeyIndex(appearances, user.handle)
           map == IF known = 0
                  THEN Append(appearances,
                              [handle |-> user.handle, profile |-> user,
                               newsletterIds |-> <<>>])
                  ELSE appearances
           k == IF known = 0 THEN Len(map) ELSE known
       IN [map EXCEPT ![k].newsletterIds = Append(@, newsletterId)]

\* one iteration of the "track appearances" loop; the map is the sequence of
\* its entries in key order (insertion order: no handle here is an integer)
TrackUser(appearances, user, newsletterId) ==
  IF user.handle = "" THEN appearances
  ELSE LET known == KeyIndex(appearances, user.handle)
           map == IF known = 0
                  THEN Append(appearances,
                              [handle |-> user.handle, profile |-> user,
                               newsletterIds |-> <<>>])
                  ELSE appearances
           k == IF known = 0 THEN Len(map) ELSE known
       IN IF Includes(map[k].newsletterIds, newsletterId)
          THEN map
          ELSE [map EXCEPT ![k].newsletterIds = Append(@, newsletterId)]

RECURSIVE TrackAppearances(_, _, _)
\* a loop that forgets the people found before each user
TrackAppearances_Forgets(appearances, users, newsletterId) ==
  IF users = <<>> THEN appearances
  ELSE TrackAppearances(TrackUser(<<>>, Head(users), newsletterId),
                        Tail(users), newsletterId)

TrackAppearances(appearances, users, newsletterId) ==
  IF users = <<>> THEN appearances
  ELSE TrackAppearances(TrackUser(appearances, Head(users), newsletterId),
                        Tail(users), newsletterId)

\* a count of the people found on two newsletters or more
MatchCount_SharedOnly(appearances) ==
  Cardinality({k \in 1..Len(appearances) :
                 Len(appearances[k].newsletterIds) >= 2})

\* Object.keys(state.personAppearances).length
MatchCount(appearances) == Len(appearances)

(* ------------------------------- state -------------------------------- *)
VARIABLES
  stored,          \* sessionStorage[STATE_KEY]: NoState or a ScanState
  elapsed,         \* minutes since stored was last written
  loc,             \* window.location of the live page
  pendingNav,      \* location assigned to window.location.href, not yet loaded
  injectedReady,   \* content script: READY seen on this page
  pendingCommand,  \* content script: START_SCAN held until READY
  readyInFlight,   \* READY posted by the page script, not yet received
  inbox,           \* commands posted to the page, not yet handled
  pcP,             \* position of processScan on this page
  mem,             \* processScan's local `state` object
  scans,           \* startScan invocations on this page: position, locals, tallies
  started,         \* number of startScan invocations on this page
  issuedStarts,    \* START_SCAN commands the popup has sent
  issuedCancels,   \* CANCEL_SCAN commands the popup has sent
  out,             \* events posted by the most recent step
  cancelled,       \* history: CANCEL_SCAN handled and no START_SCAN since
  persistedMax,    \* history: highest cursor written since the ScanState was created
  unfinished,      \* history: START_SCANs handled minus COMPLETEs sent
  delay,           \* processScan's `delay` while it sleeps, else 0
  randoms,         \* the values Math.random() returns in this behaviour
  interrupted,     \* history: this page's load tore down a sleeping processScan
  arg,             \* a direct call of one of the engine's functions: its arguments
  res,             \* ... and what it returned
  extension        \* what lives outside the page: storage, clock, popup

vars == <<stored, elapsed, loc, pendingNav, injectedReady, pendingCommand,
          readyInFlight, inbox, pcP, mem, scans, started, issuedStarts,
          issuedCancels, out, cancelled, persistedMax, unfinished, delay,
          randoms, interrupted, arg, res, extension>>

\* chrome.storage.local: the results and the display records
local == extension.local
\* Date.now(), in minutes
now == extension.now
\* the popup: "closed", or the section showSection made visible
section == extension.section
\* chrome.runtime messages sent to the popup, not yet handled
toPopup == extension.toPopup

\* a key chrome.storage.local does not hold
NoRecord == [present |-> FALSE]

ScanIds == 1..MaxScans
ElapsedValues == {0, ONE_HOUR, ONE_HOUR + 1}

StartCommand(u) == [type |-> "START_SCAN", username |-> u]
CancelCommand == [type |-> "CANCEL_SCAN"]

NoResponse == [ok |-> FALSE, pending |-> TRUE]   \* the fetch has not returned

IdleScan ==
  [pc |-> "unused", username |-> Null, state |-> NoState,
   response |-> NoResponse,
   fetches |-> 0, errors |-> 0, scanning |-> 0, writes |-> 0, navs |-> 0,
   delay |-> 0]

(* ------------------------------ events -------------------------------- *)
ReadyEvent == [type |-> "READY"]
StatusProgress == [type |-> "PROGRESS", step |-> "status"]
ScanningProgress(current, total, matchCount) ==
  [type |-> "PROGRESS", step |-> "scanning", current |-> current,
   total |-> total, matchCount |-> matchCount]
ErrorEvent == [type |-> "ERROR"]
CompleteEvent(state, matches) ==
  [type |-> "COMPLETE", total |-> Len(state.pagesToVisit), matches |-> matches]

\* String.prototype.toLowerCase on the names in use
toLowerCase(s) ==
  IF s = "H1" THEN "h1" ELSE IF s = "H2" THEN "h2" ELSE s

\* 1.0 / Math.log(x) in millionths (rounded), for x = 2 .. 26 and x = 1002
InverseLogTable ==
  <<1442695, 910239, 721348, 621335, 558111, 513898, 480898, 455120, 434294,
    417032, 402430, 389871, 378923, 369269, 360674, 352956, 345976, 339623,
    333808, 328459, 323515, 318929, 314658, 310667, 306928>>
InverseLog(x) == IF x = FALLBACK_COUNT + 2 THEN 144723 ELSE InverseLogTable[x - 1]

\* a fallback to a small newsletter instead of a moderately large one
CountOrFallback_Small(subscriberCount) ==
  IF subscriberCount = NoCount \/ subscriberCount = 0
  THEN 10 ELSE subscriberCount

\* (subscriberCount || 1000): a missing count and the count 0 are both falsy
CountOrFallback(subscriberCount) ==
  IF subscriberCount = NoCount \/ subscriberCount = 0
  THEN FALLBACK_COUNT ELSE subscriberCount

\* computeNichenessWeight, in millionths
computeNichenessWeight(subscriberCount) ==
  InverseLog(CountOrFallback(subscriberCount) + 2)

\* computeQualityScore, in millionths
computeQualityScore(profile) ==
  (IF profile.bio # "" THEN 1000000 ELSE 0)
  + (IF profile.primaryPublication # "" THEN 2000000 ELSE 0)
  + (IF profile.photo_url # "" THEN 500000 ELSE 0)

\* newsletterMap.get(nlId): the last newsletter of the state with that id,
\* 0 when there is none
RECURSIVE NewsletterIndex(_, _)
NewsletterIndex(newsletters, nlId) ==
  IF newsletters = <<>> THEN 0
  ELSE IF newsletters[Len(newsletters)].id = nlId THEN Len(newsletters)
  ELSE NewsletterIndex(SubSeq(newsletters, 1, Len(newsletters) - 1), nlId)

\* the loop over a person's newsletter ids: the summed weights
RECURSIVE SumWeights(_, _)
SumWeights(newsletters, ids) ==
  IF ids = <<>> THEN 0
  ELSE LET k == NewsletterIndex(newsletters, Head(ids)) IN
       (IF k = 0 THEN 0 ELSE computeNichenessWeight(newsletters[k].subscriberCount))
       + SumWeights(newsletters, Tail(ids))

\* every newsletter of the state, shared or not
SharedNewsletters_All(newsletters, ids) ==
  [k \in 1..Len(newsletters) |-> newsletters[k].id]

\* the ids of the loop that name a newsletter of the state
RECURSIVE SharedNewsletters(_, _)
SharedNewsletters(newsletters, ids) ==
  IF ids = <<>> THEN <<>>
  ELSE (IF NewsletterIndex(newsletters, Head(ids)) = 0 THEN <<>> ELSE <<Head(ids)>>)
       \o SharedNewsletters(newsletters, Tail(ids))

\* the match pushed for one entry of the map
Match(state, entry) ==
  [username |-> entry.profile.handle,
   bio |-> entry.profile.bio,
   score |-> SumWeights(state.newsletters, entry.newsletterIds)
             + computeQualityScore(entry.profile) \div 10,
   sharedNewsletters |-> SharedNewsletters(state.newsletters, entry.newsletterIds)]

\* the tests of finishScan comparing the handle as written
Skipped_CaseSensitive(state, entry) ==
  \/ entry.handle = state.username
  \/ Len(entry.newsletterIds) < 2

\* the two "continue" tests of finishScan
Skipped(state, entry) ==
  \/ toLowerCase(entry.handle) = toLowerCase(state.username)
  \/ Len(entry.newsletterIds) < 2

\* the matches in the order the loop over the map pushes them
RECURSIVE CollectMatches(_, _)
CollectMatches(state, entries) ==
  IF entries = <<>> THEN <<>>
  ELSE (IF Skipped(state, Head(entries)) THEN <<>>
        ELSE <<Match(state, Head(entries))>>)
       \o CollectMatches(state, Tail(entries))

\* insertion that puts m before the entries of equal score
RECURSIVE InsertByScore_TiesFirst(_, _)
InsertByScore_TiesFirst(m, sorted) ==
  IF sorted = <<>> THEN <<m>>
  ELSE IF sorted[Len(sorted)].score > m.score
       THEN Append(sorted, m)
       ELSE Append(InsertByScore_TiesFirst(m, SubSeq(sorted, 1, Len(sorted) - 1)),
                   sorted[Len(sorted)])

\* stable insertion of m into a list sorted by descending score
RECURSIVE InsertByScore(_, _)
InsertByScore(m, sorted) ==
  IF sorted = <<>> THEN <<m>>
  ELSE IF sorted[Len(sorted)].score >= m.score
       THEN Append(sorted, m)
       ELSE Append(InsertByScore(m, SubSeq(sorted, 1, Len(sorted) - 1)),
                   sorted[Len(sorted)])

\* matches.sort((a, b) => b.score - a.score), a stable sort
RECURSIVE SortByScore(_)
SortByScore(matches) ==
  IF matches = <<>> THEN <<>>
  ELSE InsertByScore(matches[Len(matches)],
                     SortByScore(SubSeq(matches, 1, Len(matches) - 1)))

\* the matches finishScan sends
Matches(state) == SortByScore(CollectMatches(state, state.personAppearances))

\* Math.random(), a number in [0, 1), in steps of 1/RandomGrain
RandomGrain == 10000
RandomSamples == {0, RandomGrain \div 2, RandomGrain - 1}

\* a delay that leaves out the lower bound
randomDelay_NoMin(min, max, random) ==
  (random * (max - min + 1)) \div RandomGrain

\* Math.floor(Math.random() * (max - min + 1)) + min
randomDelay(min, max, random) ==
  (random * (max - min + 1)) \div RandomGrain + min

\* a tab on the Substack home page, its scripts just loaded, no scan stored
FreshPage ==
  /\ stored = NoState
  /\ elapsed = 0
  /\ loc = Home
  /\ pendingNav = NoNav
  /\ injectedReady = FALSE
  /\ pendingCommand = NoCommand
  /\ readyInFlight = TRUE
  /\ inbox = <<>>
  /\ pcP = "idle"
  /\ mem = NoState
  /\ scans = [s \in ScanIds |-> IdleScan]
  /\ started = 0
  /\ issuedStarts = 0
  /\ issuedCancels = 0
  /\ out = <<ReadyEvent>>
  /\ cancelled = FALSE
  /\ persistedMax = 0
  /\ unfinished = 0
  /\ delay = 0
  /\ interrupted = FALSE
  /\ extension = [local |-> [results |-> NoRecord, scanState |-> NoRecord],
                  now |-> 1, section |-> "closed", toPopup |-> <<>>]

NoCall == [fn |-> "none"]

\* The lengths of the delays bear on no step of the engine, so the page
\* machinery runs with one value of Math.random(); Live draws it from all
\* of RandomSamples.
Init == FreshPage /\ arg = NoCall /\ res = NoCall /\ randoms = {0}

(* --------------------------- storage helpers -------------------------- *)
\* a read that makes up a plan when nothing is stored
getState_MakesUp ==
  IF stored = NoState THEN InitialScanState("zed", <<PubBig>>) ELSE stored

\* sessionStorage.getItem(STATE_KEY), parsed; null when nothing is stored
getState == stored

\* a write that keeps only the visits still to come
setState_DropsVisited(state) ==
  /\ stored' = [state EXCEPT !.pagesToVisit =
                  SubSeq(@, state.currentPageIndex + 1, Len(@))]
  /\ elapsed' = 0

\* sessionStorage.setItem(STATE_KEY, JSON.stringify(state))
setState(state) == stored' = state /\ elapsed' = 0

\* sessionStorage.removeItem(STATE_KEY)
clearState == stored' = NoState /\ elapsed' = 0

Max(a, b) == IF a > b THEN a ELSE b

(* ------------------------ environment: the host ----------------------- *)
\* The live page is torn down and a page at location l is loaded: the content
\* script and the page script start afresh; the page script's on-load block
\* schedules processScan when a ScanState is stored and posts READY otherwise.
\* an on-load block that never finds the stored state
ScanStored_Never == FALSE

\* const state = getState(); if (state)
ScanStored == stored # NoState

PageLoad(l) ==
  /\ loc' = l
  /\ pendingNav' = NoNav
  /\ injectedReady' = FALSE
  /\ pendingCommand' = NoCommand
  /\ inbox' = <<>>
  /\ mem' = NoState
  /\ scans' = [s \in ScanIds |-> IdleScan]
  /\ started' = 0
  /\ IF ScanStored
     THEN pcP' = "settle" /\ readyInFlight' = FALSE /\ out' = <<>>
     ELSE pcP' = "idle" /\ readyInFlight' = TRUE /\ out' = <<ReadyEvent>>
  /\ UNCHANGED <<stored, elapsed, issuedStarts, issuedCancels, cancelled,
                 persistedMax>>
  /\ delay' = 0
  /\ interrupted' = (pcP = "delay")
  /\ UNCHANGED <<unfinished, randoms, arg, res>>
  /\ UNCHANGED extension

\* the navigation the engine asked for lands
NavLoad == pendingNav # NoNav /\ PageLoad(pendingNav)

\* the user reloads, or the host goes anywhere else
UserLoad == \E l \in Locations : PageLoad(l)

TimePasses ==
  /\ stored # NoState
  /\ \E e \in ElapsedValues : e > elapsed /\ elapsed' = e
  /\ out' = <<>>
  /\ UNCHANGED <<stored, loc, pendingNav, injectedReady, pendingCommand,
                 readyInFlight, inbox, pcP, mem, scans, started, issuedStarts,
                 issuedCancels, cancelled, persistedMax>>
  /\ UNCHANGED <<unfinished, delay, randoms, interrupted, arg, res>>
  /\ UNCHANGED extension

(* --------------------- content script (the bridge) -------------------- *)
\* a bridge that posts every command at once
CanPost_Always == TRUE

\* if (injectedReady)
CanPost == injectedReady

\* chrome.runtime.onMessage of the content script, START_SCAN
StartScanMessage(u) ==
  /\ issuedStarts < MaxScans
  /\ issuedStarts' = issuedStarts + 1
  /\ IF CanPost
     THEN inbox' = Append(inbox, StartCommand(u)) /\ UNCHANGED pendingCommand
     ELSE pendingCommand' = StartCommand(u) /\ UNCHANGED inbox
  /\ out' = <<>>
  /\ UNCHANGED <<stored, elapsed, loc, pendingNav, injectedReady, readyInFlight,
                 pcP, mem, scans, started, issuedCancels, cancelled, persistedMax>>
  /\ UNCHANGED <<unfinished, delay, randoms, interrupted, arg, res>>

\* the popup sends START_SCAN
PopupStart(u) == StartScanMessage(u) /\ UNCHANGED extension

\* chrome.runtime.onMessage of the content script, CANCEL_SCAN
CancelScanMessage ==
  /\ issuedCancels < MaxCancels
  /\ issuedCancels' = issuedCancels + 1
  /\ inbox' = Append(inbox, CancelCommand)
  /\ out' = <<>>
  /\ UNCHANGED <<stored, elapsed, loc, pendingNav, injectedReady, pendingCommand,
                 readyInFlight, pcP, mem, scans, started, issuedStarts, cancelled, persistedMax>>
  /\ UNCHANGED <<unfinished, delay, randoms, interrupted, arg, res>>

\* the popup sends CANCEL_SCAN
PopupCancel == CancelScanMessage /\ UNCHANGED extension

\* window message listener of the content script, READY
BridgeReady ==
  /\ readyInFlight
  /\ readyInFlight' = FALSE
  /\ injectedReady' = TRUE
  /\ IF pendingCommand # NoCommand
     THEN inbox' = Append(inbox, pendingCommand) /\ pendingCommand' = NoCommand
     ELSE UNCHANGED <<inbox, pendingCommand>>
  /\ out' = <<>>
  /\ UNCHANGED <<stored, elapsed, loc, pendingNav, pcP, mem, scans, started,
                 issuedStarts, issuedCancels, cancelled, persistedMax>>
  /\ UNCHANGED <<unfinished, delay, randoms, interrupted, arg, res>>
  /\ UNCHANGED extension

(* ----------------------- page script: commands ------------------------ *)
\* command listener, START_SCAN: startScan up to its first await
HandleStartScan ==
  /\ inbox # <<>>
  /\ Head(inbox).type = "START_SCAN"
  /\ started < MaxScans
  /\ inbox' = Tail(inbox)
  /\ started' = started + 1
  /\ clearState
  /\ scans' = [scans EXCEPT ![started + 1] =
                 [IdleScan EXCEPT !.pc = "fetching",
                                  !.username = Head(inbox).username,
                                  !.fetches = 1]]
  /\ out' = <<StatusProgress>>
  /\ cancelled' = FALSE
  /\ UNCHANGED <<loc, pendingNav, injectedReady, pendingCommand, readyInFlight,
                 pcP, mem, issuedStarts, issuedCancels, persistedMax>>
  /\ unfinished' = unfinished + 1
  /\ UNCHANGED <<delay, randoms, interrupted, arg, res>>
  /\ UNCHANGED extension

\* command listener, CANCEL_SCAN
HandleCancelScan ==
  /\ inbox # <<>>
  /\ Head(inbox).type = "CANCEL_SCAN"
  /\ inbox' = Tail(inbox)
  /\ clearState
  /\ cancelled' = TRUE
  /\ out' = <<>>
  /\ UNCHANGED <<loc, pendingNav, injectedReady, pendingCommand, readyInFlight,
                 pcP, mem, scans, started, issuedStarts, issuedCancels, persistedMax>>
  /\ UNCHANGED <<unfinished, delay, randoms, interrupted, arg, res>>
  /\ UNCHANGED extension

(* ----------------------- page script: startScan ----------------------- *)
\* the check for an empty subscription list left out
PlanningFails_FetchOnly(response) == ~response.ok

\* getUserProfile throws, or the profile has no subscriptions
PlanningFails(response) == ~response.ok \/ Len(response.subscriptions) = 0

\* startScan from the return of getUserProfile to its next await (or its end)
FetchReturn(s, response) ==
  /\ scans[s].pc = "fetching"
  /\ IF PlanningFails(response)
     THEN /\ scans' = [scans EXCEPT ![s].pc = "done",
                                    ![s].response = response,
                                    ![s].errors = @ + 1]
          /\ out' = <<ErrorEvent>>
          /\ UNCHANGED <<stored, elapsed, persistedMax>>
     ELSE LET state == InitialScanState(scans[s].username, response.subscriptions) IN
          /\ setState(state)
          /\ persistedMax' = 0
          /\ IF Len(state.pagesToVisit) = 0
             THEN \* first is undefined: first.name throws, the catch reports it
                  /\ scans' = [scans EXCEPT ![s].pc = "done",
                                            ![s].response = response,
                                            ![s].writes = @ + 1,
                                            ![s].errors = @ + 1]
                  /\ out' = <<StatusProgress, ErrorEvent>>
             ELSE /\ \E random \in randoms :
                       scans' = [scans EXCEPT
                                   ![s].pc = "delay",
                                   ![s].response = response,
                                   ![s].state = state,
                                   ![s].writes = @ + 1,
                                   ![s].scanning = @ + 1,
                                   ![s].delay = randomDelay(FIRST_DELAY_MIN,
                                                            FIRST_DELAY_MAX,
                                                            random)]
                  /\ out' = <<StatusProgress,
                              ScanningProgress(1, Len(state.pagesToVisit), 0)>>
  /\ UNCHANGED <<loc, pendingNav, injectedReady, pendingCommand, readyInFlight,
                 inbox, pcP, mem, started, issuedStarts, issuedCancels,
                 cancelled>>
  /\ UNCHANGED <<unfinished, delay, randoms, interrupted, arg, res>>
  /\ UNCHANGED extension

\* startScan after sleep(randomDelay(2000, 4000)): go to the first page
StartScanNavigate(s) ==
  /\ scans[s].pc = "delay"
  /\ pendingNav' = PageUrl(scans[s].state.pagesToVisit[1])
  /\ scans' = [scans EXCEPT ![s].pc = "done", ![s].state = NoState,
                            ![s].navs = @ + 1, ![s].delay = 0]
  /\ out' = <<>>
  /\ UNCHANGED <<stored, elapsed, loc, injectedReady, pendingCommand,
                 readyInFlight, inbox, pcP, mem, started, issuedStarts,
                 issuedCancels, cancelled,
                 persistedMax>>
  /\ UNCHANGED <<unfinished, delay, randoms, interrupted, arg, res>>
  /\ UNCHANGED extension

(* ---------------------- page script: processScan ---------------------- *)
\* a resume that restarts the plan from its first page
CurrentPageIndex_FromStart(state) == 0

\* index of currentPage = state.pagesToVisit[state.currentPageIndex]
CurrentPageIndex(state) == state.currentPageIndex

\* currentPage && url.includes(`@${currentPage.subdomain}`)
OnCurrentPage(state, l) ==
  /\ CurrentPageIndex(state) < Len(state.pagesToVisit)
  /\ UrlIncludesAt(l, state.pagesToVisit[CurrentPageIndex(state) + 1].subdomain)

\* the cursor advanced once per list kind instead of once per visit
AfterExtraction_SkipsVisit(state, idx, users) ==
  [state EXCEPT
     !.personAppearances =
        TrackAppearances(@, users, state.pagesToVisit[idx + 1].newsletterId),
     !.currentPageIndex = @ + 2]

\* the state object after the appearance loop and currentPageIndex++
AfterExtraction(state, idx, users) ==
  [state EXCEPT
     !.personAppearances =
        TrackAppearances(@, users, state.pagesToVisit[idx + 1].newsletterId),
     !.currentPageIndex = @ + 1]

\* a scan that stops one visit short of the plan's end
HasNextPage_OneShort(state) ==
  state.currentPageIndex + 1 < Len(state.pagesToVisit)

\* state.currentPageIndex < state.pagesToVisit.length
HasNextPage(state) == state.currentPageIndex < Len(state.pagesToVisit)

\* "Move to next page or finish" with the state object as it now is: either
\* report the next page and start the delay, or finishScan; written says
\* whether setState(state) ran just before (the extraction branch)
MoveOn(state, written) ==
  /\ mem' = state
  /\ IF HasNextPage(state)
     THEN /\ pcP' = "delay"
          /\ out' = <<ScanningProgress(state.currentPageIndex + 1,
                                       Len(state.pagesToVisit),
                                       MatchCount(state.personAppearances))>>
          /\ IF written
             THEN setState(state) /\ persistedMax' = Max(persistedMax, state.currentPageIndex)
             ELSE UNCHANGED <<stored, elapsed, persistedMax>>
          /\ UNCHANGED unfinished
          /\ \E random \in randoms :
                delay' = randomDelay(DELAY_MIN, DELAY_MAX, random)
     ELSE \* finishScan
          /\ pcP' = "done"
          /\ clearState
          /\ persistedMax' = 0
          /\ unfinished' = unfinished - 1
          /\ UNCHANGED delay
          /\ out' = <<StatusProgress, CompleteEvent(state, Matches(state))>>

\* the setTimeout(processScan, 3000) callback, up to its first await
ProcessScanStart ==
  /\ pcP = "settle"
  /\ LET state == getState
     IN IF state = NoState
        THEN /\ pcP' = "done"
             /\ out' = <<>>
             /\ UNCHANGED <<stored, elapsed, mem, persistedMax, unfinished, delay>>
        ELSE IF OnCurrentPage(state, loc)
             THEN /\ pcP' = "extracting"
                  /\ mem' = state
                  /\ out' = <<ScanningProgress(state.currentPageIndex + 1,
                                               Len(state.pagesToVisit),
                                               MatchCount(state.personAppearances))>>
                  /\ UNCHANGED <<stored, elapsed, persistedMax, unfinished, delay>>
             ELSE MoveOn(state, FALSE)
  /\ UNCHANGED <<loc, pendingNav, injectedReady, pendingCommand, readyInFlight,
                 inbox, scans, started, issuedStarts, issuedCancels, cancelled>>
  /\ interrupted' = FALSE
  /\ UNCHANGED <<randoms, arg, res>>
  /\ UNCHANGED extension

\* the await of getUsersForPage ends: with a list (track appearances, advance
\* the cursor, persist, move on) or with the exception of a payload of another
\* shape, which nothing catches: processScan stops where it is
ExtractReturn(result) ==
  /\ pcP = "extracting"
  /\ IF result.threw
     THEN /\ pcP' = "threw"
          /\ out' = <<>>
          /\ UNCHANGED <<stored, elapsed, mem, persistedMax, unfinished, delay>>
     ELSE MoveOn(AfterExtraction(mem, CurrentPageIndex(mem), result.users), TRUE)
  /\ UNCHANGED <<loc, pendingNav, injectedReady, pendingCommand, readyInFlight,
                 inbox, scans, started, issuedStarts, issuedCancels, cancelled>>
  /\ UNCHANGED <<randoms, interrupted, arg, res>>
  /\ UNCHANGED extension

\* processScan after sleep(randomDelay()): go to the next page
ProcessScanNavigate ==
  /\ pcP = "delay"
  /\ pendingNav' = PageUrl(mem.pagesToVisit[mem.currentPageIndex + 1])
  /\ pcP' = "done"
  /\ out' = <<>>
  /\ UNCHANGED <<stored, elapsed, loc, injectedReady, pendingCommand,
                 readyInFlight, inbox, mem, scans, started, issuedStarts,
                 issuedCancels, cancelled,
                 persistedMax>>
  /\ delay' = 0
  /\ UNCHANGED <<unfinished, randoms, interrupted, arg, res>>
  /\ UNCHANGED extension

(* --------------------------- specification ---------------------------- *)
Next ==
  \/ NavLoad
  \/ UserLoad
  \/ TimePasses
  \/ \E u \in Usernames : PopupStart(u)
  \/ PopupCancel
  \/ BridgeReady
  \/ HandleStartScan
  \/ HandleCancelScan
  \/ \E s \in ScanIds, response \in ProfileResponses : FetchReturn(s, response)
  \/ \E s \in ScanIds : StartScanNavigate(s)
  \/ ProcessScanStart
  \/ \E result \in ExtractionResults : ExtractReturn(result)
  \/ ProcessScanNavigate

Spec == Init /\ [][Next]_vars

(* ------------------- one scan, left alone by the popup ---------------- *)
\* The popup starts one scan and never cancels; the host may still tear the
\* page down and load any location.  Every step the engine, the bridge, the
\* network or a pending navigation can take is taken eventually.

\* a page load that is not the landing of the engine's navigation
Teardown == \E l \in Locations : l # pendingNav /\ PageLoad(l)

StartOnce == \E u \in Usernames : issuedStarts = 0 /\ PopupStart(u)

LiveNext ==
  \/ NavLoad
  \/ Teardown
  \/ StartOnce
  \/ BridgeReady
  \/ HandleStartScan
  \/ \E s \in ScanIds, response \in ProfileResponses : FetchReturn(s, response)
  \/ \E s \in ScanIds : StartScanNavigate(s)
  \/ ProcessScanStart
  \/ \E result \in ExtractionResults : ExtractReturn(result)
  \/ ProcessScanNavigate

Fairness ==
  /\ WF_vars(NavLoad)
  /\ WF_vars(BridgeReady)
  /\ WF_vars(HandleStartScan)
  /\ WF_vars(\E s \in ScanIds, response \in ProfileResponses :
               FetchReturn(s, response))
  /\ WF_vars(\E s \in ScanIds : StartScanNavigate(s))
  /\ WF_vars(ProcessScanStart)
  /\ WF_vars(\E result \in ExtractionResults : ExtractReturn(result))
  /\ WF_vars(ProcessScanNavigate)

LiveInit ==
  FreshPage /\ arg = NoCall /\ res = NoCall /\ randoms = RandomSamples

Live == LiveInit /\ [][LiveNext]_vars /\ Fairness

(* ------------------------- requests and sinks ------------------------- *)
\* A URL is the text the code writes, kept as a sequence of pieces: the
\* literal pieces of the template and the pieces of the interpolated values.
API_BASE == <<"https://", "substack.com", "/", "api", "/", "v1">>

\* `${API_BASE}/user/${username}/public_profile`
ProfileUrl(username) ==
  API_BASE \o <<"/", "user", "/">> \o username \o <<"/", "public_profile">>

\* `${API_BASE}/user/${authorId}/subscriber-lists?lists=${listType}`
SubscriberListUrl(authorId, listType) ==
  API_BASE \o <<"/", "user", "/">> \o authorId
           \o <<"/", "subscriber-lists", "?", "lists", "=", listType>>

\* a template that leaves out the slash after the host
NavigationUrl_NoSlash(page) ==
  <<"https://", "substack.com", "@">> \o page.subdomain \o <<"/", page.pageType>>

\* `https://substack.com/@${next.subdomain}/${next.pageType}`
NavigationUrl(page) ==
  <<"https://", "substack.com", "/", "@">> \o page.subdomain
     \o <<"/", page.pageType>>

\* the pieces that end the authority of an https URL
AuthorityDelimiters == {"/", "?", "#", "\\"}

\* the authority of url: what follows the scheme, up to the first delimiter
Authority(url) ==
  LET ends == {i \in 2..Len(url) : url[i] \in AuthorityDelimiters}
      end == IF ends = {} THEN Len(url) + 1
             ELSE CHOOSE i \in ends : \A j \in ends : i <= j
  IN SubSeq(url, 2, end - 1)

\* the host a request to url goes to: the authority after its last "@"
Host(url) ==
  LET a == Authority(url)
      ats == {i \in 1..Len(a) : a[i] = "@"}
      last == IF ats = {} THEN 0 ELSE CHOOSE i \in ats : \A j \in ats : j <= i
  IN SubSeq(a, last + 1, Len(a))

\* the requests of one scan step: the profile fetch of startScan, the list
\* fetch of getUsersForPage and the navigation to a page of the plan
Requests(username, page) ==
  [profile |-> ProfileUrl(username),
   list |-> SubscriberListUrl(page.authorId, page.pageType),
   navigation |-> NavigationUrl(page)]

\* what the content script does with a message of the page script, as the
\* sequence of its writes
Forward(event) ==
  IF event.type = "READY" THEN <<>>
  ELSE (IF event.type = "PROGRESS"
        THEN IF event.step = "scanning"
             THEN <<[sink |-> "chrome.storage.local", op |-> "set",
                     key |-> "substackFriendFinderScanState"]>>
             ELSE <<>>
        ELSE IF event.type = "COMPLETE"
             THEN <<[sink |-> "chrome.storage.local", op |-> "set",
                     key |-> "substackFriendFinder"],
                    [sink |-> "chrome.storage.local", op |-> "remove",
                     key |-> "substackFriendFinderScanState"]>>
             ELSE IF event.type = "ERROR"
                  THEN <<[sink |-> "chrome.storage.local", op |-> "remove",
                          key |-> "substackFriendFinderScanState"]>>
                  ELSE <<>>)
       \o <<[sink |-> "chrome.runtime.sendMessage", op |-> "send",
             key |-> event.type]>>

(* ------------------- the engine's functions, called directly ---------- *)
\* Each behaviour of Calls is one call: Init draws the arguments, the action
\* of that function applies it.  The page machinery stays as FreshPage.

PubZero == Pub("n5", <<"z">>, "p5", Null, 0)
PubUncounted == Pub("n6", <<"u">>, Null, "p6", NoCount)
Pubs == {PubBig, PubNiche, PubNoSubdomain, PubNoAuthor, PubZero, PubUncounted}

RECURSIVE SeqsUpTo(_, _)
SeqsUpTo(S, n) ==
  IF n = 0 THEN {<<>>}
  ELSE LET shorter == SeqsUpTo(S, n - 1)
       IN shorter \cup {Append(s, x) : s \in shorter, x \in S}

\* the lists getUsersForPage can return over the tier inputs
UserLists == {result.users : result \in ExtractionResults \ {Threw}}
NewsletterIds == {"n1", "n2"}

\* appearance maps after up to two extraction steps
MapsAfterOne ==
  {TrackAppearances(EmptyAppearances, users, id) :
     users \in UserLists, id \in NewsletterIds}
MapsAfterTwo ==
  {TrackAppearances(map, users, id) :
     map \in MapsAfterOne, users \in UserLists, id \in NewsletterIds}
AppearanceMaps == {EmptyAppearances} \cup MapsAfterOne \cup MapsAfterTwo

\* scan states at the end of a three-newsletter plan, one list per page
PersonTwo == ExtractUser(ApiUserByUsername)
PersonThree == User("h3", "Three", "x", "", "")
ScoreLists ==
  { <<>>, <<PersonTwo, ExtractUser(ApiUserRich)>>, <<PersonThree, PersonTwo>> }
ScoreSubscriptions ==
  { <<PubBig, PubZero, PubNiche>>, <<PubBig, PubUncounted, PubNiche>> }

\* processScan's extraction step on every page of the plan, lists[i] being
\* what page i yields
RECURSIVE ScanPages(_, _)
ScanPages(state, lists) ==
  IF ~HasNextPage(state) THEN state
  ELSE ScanPages(AfterExtraction(state, CurrentPageIndex(state),
                                 lists[state.currentPageIndex + 1]), lists)

\* finished scans together with the lists their visits yielded
FinishedScans ==
  {[state |-> ScanPages(InitialScanState(u, subs), lists), lists |-> lists] :
     u \in Usernames, subs \in ScoreSubscriptions,
     lists \in [1..6 -> ScoreLists]}

GetUsersCalls ==
  {[fn |-> "getUsersForPage", apiData |-> a, nextData |-> n, links |-> l] :
     a \in ApiResponses, n \in NextDatas, l \in DomLinks}
TrackCalls ==
  {[fn |-> "track", appearances |-> m, users |-> u, newsletterId |-> id] :
     m \in AppearanceMaps, u \in UserLists, id \in NewsletterIds}
FinishCalls ==
  {[fn |-> "finishScan", state |-> f.state, lists |-> f.lists] :
     f \in FinishedScans}
PlanCalls ==
  {[fn |-> "plan", subscriptions |-> subs] : subs \in SeqsUpTo(Pubs, MaxSubscriptions)}
WeightCalls ==
  {[fn |-> "computeNichenessWeight", a |-> a, b |-> b] :
     a \in 0..MaxCount, b \in 0..MaxCount}

\* values of a profile or of the popup's input, as pieces of text
Texts ==
  {<<"zed">>, <<"@", "evil.com">>, <<"/", "/", "evil.com">>,
   <<".", "evil.com", "/">>, <<"?", "u", "=", "https://", "evil.com">>}
RequestCalls ==
  {[fn |-> "requests", username |-> u,
    page |-> [subdomain |-> s, authorId |-> a, pageType |-> k]] :
     u \in Texts, s \in Texts, a \in Texts, k \in PageTypes}
ForwardCalls ==
  {[fn |-> "forward", event |-> e] :
     e \in {ReadyEvent, StatusProgress, ScanningProgress(1, 2, 0), ErrorEvent,
            [type |-> "COMPLETE", total |-> 2, matches |-> <<>>]}}

CallsInit ==
  /\ FreshPage
  /\ randoms = {0}
  /\ res = NoCall
  /\ \/ arg \in GetUsersCalls
     \/ arg \in TrackCalls
     \/ arg \in FinishCalls
     \/ arg \in PlanCalls
     \/ arg \in WeightCalls
     \/ arg \in RequestCalls
     \/ arg \in ForwardCalls

\* the call returns value
Return(value) ==
  /\ res = NoCall
  /\ res' = [fn |-> arg.fn, value |-> value]
  /\ UNCHANGED <<stored, elapsed, loc, pendingNav, injectedReady, pendingCommand,
                 readyInFlight, inbox, pcP, mem, scans, started, issuedStarts,
                 issuedCancels, out, cancelled, persistedMax, unfinished, delay,
                 randoms, interrupted, arg>>
  /\ UNCHANGED extension

CallGetUsersForPage ==
  /\ arg.fn = "getUsersForPage"
  /\ Return(getUsersForPage(arg.apiData, arg.nextData, arg.links))

\* the "track appearances" loop of processScan
CallTrackAppearances ==
  /\ arg.fn = "track"
  /\ Return(TrackAppearances(arg.appearances, arg.users, arg.newsletterId))

CallFinishScan ==
  /\ arg.fn = "finishScan"
  /\ Return(Matches(arg.state))

\* startScan from the fetched profile to the initial state
CallPlan ==
  /\ arg.fn = "plan"
  /\ Return(InitialScanState("zed", arg.subscriptions))

CallWeight ==
  /\ arg.fn = "computeNichenessWeight"
  /\ Return(<<computeNichenessWeight(arg.a), computeNichenessWeight(arg.b)>>)

CallRequests ==
  /\ arg.fn = "requests"
  /\ Return(Requests(arg.username, arg.page))

\* the content script's listener for the page script's messages
CallForward ==
  /\ arg.fn = "forward"
  /\ Return(Forward(arg.event))

CallsNext ==
  \/ CallGetUsersForPage
  \/ CallTrackAppearances
  \/ CallFinishScan
  \/ CallPlan
  \/ CallWeight
  \/ CallRequests
  \/ CallForward

Calls == CallsInit /\ [][CallsNext]_vars

(* ============================== claims ================================ *)

\* C1 (resumption correctness): whenever extraction runs, on whatever page
\* load and after whatever teardowns, the PageVisit it runs for has an index
\* that is at least every cursor persisted so far for this ScanState and at
\* least the cursor now in storage; no visit below the cursor is extracted
\* or accumulated again.
C1_ResumeFromCursor ==
  pcP = "extracting" =>
    /\ CurrentPageIndex(mem) >= persistedMax
    /\ stored # NoState => CurrentPageIndex(mem) >= stored.currentPageIndex

\* a resumed page is extracting the third visit of a plan whose first two
\* visits were persisted as done
C1_Witness ==
  /\ pcP = "extracting"
  /\ CurrentPageIndex(mem) = 2
  /\ persistedMax = 2
  /\ stored # NoState

\* C2 (ordering): as long as no CANCEL_SCAN was issued, every step that
\* changes the cursor of the stored ScanState is the return of the extraction
\* for PageVisit[i], i being the cursor stored before the step, and it stores
\* i+1; a ScanState that appears in empty storage starts at cursor 0.
C2_Ordering ==
  [][issuedCancels = 0 =>
       /\ (stored # NoState /\ stored' # NoState
             /\ stored'.currentPageIndex # stored.currentPageIndex) =>
            /\ pcP = "extracting"
            /\ pcP' # "extracting"
            /\ CurrentPageIndex(mem) = stored.currentPageIndex
            /\ stored'.currentPageIndex = stored.currentPageIndex + 1
       /\ (stored = NoState /\ stored' # NoState) =>
            stored'.currentPageIndex = 0]_vars

\* the fourth visit of a plan is about to be requested, after three
\* extraction steps on three page loads, with no cancel
C2_Witness ==
  /\ issuedCancels = 0
  /\ stored # NoState
  /\ stored.currentPageIndex = 3
  /\ pcP = "delay"
  /\ mem = stored

\* some event of the most recent step has one of the given types
Posted(types) == \E i \in 1..Len(out) : out[i].type \in types

\* C3 (cancellation clears state): once CANCEL_SCAN was handled and no
\* START_SCAN was handled after it, every page load finds no ScanState and the
\* engine posts READY (Idle).
C3_CancelClearsState ==
  [][(cancelled /\ (UserLoad \/ NavLoad)) =>
       (stored = NoState /\ pcP' = "idle" /\ readyInFlight')]_vars

\* C4 (cancellation prevents advancing): once CANCEL_SCAN was handled and no
\* START_SCAN was handled after it, no step assigns the host location, writes
\* a ScanState or posts COMPLETE.
C4_CancelStopsScan ==
  [][(cancelled /\ cancelled') =>
       /\ pendingNav' \in {pendingNav, NoNav}
       /\ stored' \in {stored, NoState}
       /\ ~Posted({"COMPLETE"})']_vars

\* C5 (staleness): when processScan finds a ScanState last written more than
\* one hour ago, it discards the state, ends with ERROR, posts no PROGRESS and
\* starts no extraction.
C5_StaleStateDiscarded ==
  [][(pcP = "settle" /\ pcP' \in {"extracting", "delay", "done"}
        /\ stored # NoState /\ elapsed > ONE_HOUR) =>
       /\ stored' = NoState
       /\ pcP' = "done"
       /\ Posted({"ERROR"})'
       /\ ~Posted({"PROGRESS"})']_vars

\* C6 (single scan on start): once START_SCAN for a user was handled, a stored
\* ScanState is never that of an earlier scan: it belongs to the scan started
\* last.
C6_NoEarlierScanState ==
  (started > 0 /\ stored # NoState) => stored.username = scans[started].username

\* C7 (a second START_SCAN terminates the first): once a later START_SCAN was
\* handled on the page, no step of an earlier startScan writes the ScanState
\* or assigns the host location.
C7_SecondStartTerminatesFirst ==
  [][\A s \in ScanIds :
       (s < started /\ scans[s].pc \in {"fetching", "delay"}
          /\ scans'[s].pc \in {"delay", "done"}
          /\ scans'[s].pc # scans[s].pc) =>
         (stored' = stored /\ pendingNav' = pendingNav)]_vars

\* C8 (state deleted at every terminal outcome): in every state reached by a
\* step that posted COMPLETE or ERROR, no ScanState is stored.
C8_NoStateAfterTerminalEvent ==
  Posted({"COMPLETE", "ERROR"}) => stored = NoState

\* C9 (fatal plan-level errors): a startScan whose profile fetch failed, or
\* whose profile has no subscriptions, has ended having posted exactly one
\* ERROR and no 'scanning' PROGRESS, written no ScanState, assigned no host
\* location and fetched the profile once.
C9_PlanLevelErrorsFatal ==
  \A s \in ScanIds :
    (scans[s].pc = "done" /\ scans[s].response # NoResponse
       /\ (~scans[s].response.ok \/ Len(scans[s].response.subscriptions) = 0)) =>
      /\ scans[s].errors = 1
      /\ scans[s].scanning = 0
      /\ scans[s].writes = 0
      /\ scans[s].navs = 0
      /\ scans[s].fetches = 1

\* a startScan has ended on a profile without subscriptions while another has
\* ended on a failed fetch
C9_Witness ==
  \E s, r \in ScanIds :
    /\ scans[s].pc = "done" /\ scans[s].response = Profile(<<>>)
    /\ scans[r].pc = "done" /\ scans[r].response = FetchFailed
    /\ Posted({"ERROR"})

\* C10 (an empty plan ends in Failed): COMPLETE is never posted for a scan
\* whose PageVisit sequence is empty.
C10_EmptyPlanNeverCompletes ==
  \A i \in 1..Len(out) : out[i].type = "COMPLETE" => out[i].total > 0

\* C11 (durability before yielding): while no CANCEL_SCAN was issued, every
\* step in which processScan or a startScan starts its delay, and every step
\* in which one of them assigns the host location, ends with the state object
\* that function holds (plan, cursor, appearances tracked so far) in storage.
C11_DurableBeforeYield ==
  [][issuedCancels = 0 =>
       /\ (pcP # "delay" /\ pcP' = "delay") => stored' = mem'
       /\ (pcP = "delay" /\ pcP' = "done") => stored' = mem
       /\ \A s \in ScanIds :
            /\ (scans[s].pc # "delay" /\ scans'[s].pc = "delay") =>
                 stored' = scans'[s].state
            /\ (scans[s].pc = "delay" /\ scans'[s].pc = "done") =>
                 stored' = scans[s].state]_vars

\* what tier 1 yields: nothing when fetchSubscriberList gave null
ApiUsers(apiData) ==
  IF apiData.ok THEN extractUsersFromApiResponse(apiData) ELSE <<>>

\* C12 (extraction fallback): whenever getUsersForPage returns, it returns
\* exactly the records of the direct API fetch when there are any, else those
\* of __NEXT_DATA__ when there are any, else those of the DOM scan; never
\* records of two tiers.
C12_ExtractionFallback ==
  (res.fn = "getUsersForPage" /\ ~res.value.threw) =>
    res.value.users =
      IF ApiUsers(arg.apiData) # <<>> THEN ApiUsers(arg.apiData)
      ELSE IF NextDataUsers(arg.nextData) # <<>> THEN NextDataUsers(arg.nextData)
      ELSE DomUsers(arg.links)

\* the API answered with no records, __NEXT_DATA__ and the DOM both hold
\* records, and the call returned those of __NEXT_DATA__
C12_Witness ==
  /\ res.fn = "getUsersForPage"
  /\ arg.apiData = ApiPayload(<<>>)
  /\ NextDataUsers(arg.nextData) # <<>>
  /\ DomUsers(arg.links) # <<>>
  /\ ~res.value.threw
  /\ res.value.users = NextDataUsers(arg.nextData)

\* C13 (extraction failure is not scan-fatal): every step that ends the wait
\* for getUsersForPage on PageVisit i ends it with a list: nothing is thrown,
\* no ERROR is posted, the state object has cursor i+1 and is what storage
\* holds when the scan goes on to its delay, and COMPLETE is posted when it
\* was the last visit.
C13_ExtractionNeverFatal ==
  [][(pcP = "extracting" /\ pcP' \in {"delay", "done", "threw"}) =>
       /\ pcP' # "threw"
       /\ ~Posted({"ERROR"})'
       /\ mem'.currentPageIndex = CurrentPageIndex(mem) + 1
       /\ pcP' = "delay" => stored' = mem'
       /\ pcP' = "done" => Posted({"COMPLETE"})']_vars

\* no value occurs twice in the sequence
NoRepeats(seq) == \A i, j \in 1..Len(seq) : seq[i] = seq[j] => i = j

\* C14 (accumulator idempotence): after a list of persons was tracked for a
\* newsletter, tracking the same list for the same newsletter again (the same
\* PageVisit twice, or the other list of the newsletter holding the same
\* persons) changes nothing, and no person's newsletter ids hold an id twice,
\* however often the handle occurs in the list.
C14_AccumulatorIdempotent ==
  res.fn = "track" =>
    /\ TrackAppearances(res.value, arg.users, arg.newsletterId) = res.value
    /\ \A k \in 1..Len(res.value) : NoRepeats(res.value[k].newsletterIds)

\* a list that names one handle twice was tracked for a newsletter that this
\* handle already had, alongside another newsletter
C14_Witness ==
  /\ res.fn = "track"
  /\ \E i, j \in 1..Len(arg.users) :
       /\ i < j
       /\ arg.users[i].handle = arg.users[j].handle
       /\ KeyIndex(arg.appearances, arg.users[i].handle) # 0
       /\ Includes(arg.appearances[KeyIndex(arg.appearances, arg.users[i].handle)].newsletterIds,
                   arg.newsletterId)
       /\ Len(res.value[KeyIndex(res.value, arg.users[i].handle)].newsletterIds) = 2

\* a snapshot after one more sighting: each field takes the new value unless
\* that value is empty
MergeSnapshot(old, new) ==
  [handle |-> old.handle,
   name |-> OrElse(new.name, old.name),
   bio |-> OrElse(new.bio, old.bio),
   photo_url |-> OrElse(new.photo_url, old.photo_url),
   primaryPublication |-> OrElse(new.primaryPublication, old.primaryPublication)]

\* the snapshot after every sighting of its handle in the list, in list order
RECURSIVE LatestNonEmpty(_, _)
LatestNonEmpty(profile, users) ==
  IF users = <<>> THEN profile
  ELSE LatestNonEmpty(IF Head(users).handle = profile.handle
                      THEN MergeSnapshot(profile, Head(users)) ELSE profile,
                      Tail(users))

\* C15 (profile snapshot merge): after a list was tracked, the snapshot of
\* every handle that was already in the map holds, field by field, the latest
\* non-empty value seen for it: the value of the list where that is not empty,
\* the earlier value otherwise.
C15_SnapshotLatestNonEmpty ==
  res.fn = "track" =>
    \A k \in 1..Len(arg.appearances) :
      res.value[k].profile = LatestNonEmpty(arg.appearances[k].profile, arg.users)

\* C16 (scorer exclusions): the matches of finishScan name no person with
\* fewer than two newsletter ids and nobody whose handle is the seed username
\* up to letter case, and they name every other person of the map exactly once.
C16_ScorerExclusions ==
  res.fn = "finishScan" =>
    LET map == arg.state.personAppearances
        seed == toLowerCase(arg.state.username)
    IN /\ \A i \in 1..Len(res.value) :
            LET k == KeyIndex(map, res.value[i].username) IN
            /\ k # 0
            /\ Len(map[k].newsletterIds) >= 2
            /\ toLowerCase(res.value[i].username) # seed
       /\ \A k \in 1..Len(map) :
            (Len(map[k].newsletterIds) >= 2 /\ toLowerCase(map[k].handle) # seed) =>
              Cardinality({i \in 1..Len(res.value) :
                             res.value[i].username = map[k].handle}) = 1

\* seed H1 has scanned three newsletters; the map holds the seed's own handle
\* h1 with two ids, a person with one id and a person with two, and only the
\* last is a match
C16_Witness ==
  /\ res.fn = "finishScan"
  /\ arg.state.username = "H1"
  /\ LET map == arg.state.personAppearances IN
     /\ \E k \in 1..Len(map) : map[k].handle = "h1" /\ Len(map[k].newsletterIds) >= 2
     /\ \E k \in 1..Len(map) : Len(map[k].newsletterIds) = 1
     /\ Len(res.value) = 1

\* C17 (match ordering): in the matches of finishScan no match is followed by
\* one of higher score, and of two matches of equal score the one whose entry
\* comes first in the appearance map comes first.  (The matches are a function
\* of the scan state, so equal states give equal scores and order.)
C17_MatchOrdering ==
  res.fn = "finishScan" =>
    LET map == arg.state.personAppearances IN
    \A i, j \in 1..Len(res.value) :
      i < j =>
        /\ res.value[i].score >= res.value[j].score
        /\ res.value[i].score = res.value[j].score =>
             KeyIndex(map, res.value[i].username) < KeyIndex(map, res.value[j].username)

\* three matches: two of equal score in map order, and a pair that the sort
\* has put in the opposite of map order
C17_Witness ==
  /\ res.fn = "finishScan"
  /\ Len(res.value) = 3
  /\ LET map == arg.state.personAppearances IN
     /\ \E i, j \in 1..3 : i < j /\ res.value[i].score = res.value[j].score
     /\ \E i, j \in 1..3 :
          /\ i < j
          /\ res.value[i].score > res.value[j].score
          /\ KeyIndex(map, res.value[i].username) > KeyIndex(map, res.value[j].username)

\* C18 (nicheness monotonicity): of two subscriber counts from 0 upwards, the
\* smaller one has the strictly larger weight.
C18_NichenessMonotone ==
  (res.fn = "computeNichenessWeight" /\ arg.a < arg.b) =>
    res.value[1] > res.value[2]

\* 1 / ln(subscriberCount + 2) in millionths, an unknown count being scored
\* as FALLBACK_COUNT
NichenessWeight(subscriberCount) ==
  InverseLog((IF subscriberCount = NoCount THEN FALLBACK_COUNT ELSE subscriberCount) + 2)

\* the summed weights of the first n newsletters whose id is in ids
RECURSIVE WeightOfShared(_, _, _)
WeightOfShared(newsletters, ids, n) ==
  IF n = 0 THEN 0
  ELSE (IF newsletters[n].id \in ids
        THEN NichenessWeight(newsletters[n].subscriberCount) ELSE 0)
       + WeightOfShared(newsletters, ids, n - 1)

\* a tenth of the quality of a profile, in millionths
QualityBonus(profile) ==
  (IF profile.bio # "" THEN 100000 ELSE 0)
  + (IF profile.primaryPublication # "" THEN 200000 ELSE 0)
  + (IF profile.photo_url # "" THEN 50000 ELSE 0)

\* C19 (score formula): the score of every match is the sum, over the
\* newsletters of the scan that are in the person's newsletter-id set, each
\* counted once, of 1 / ln(subscriberCount + 2), plus a tenth of the quality
\* (1.0 for a bio, 2.0 for an own publication, 0.5 for an avatar).
C19_ScoreFormula ==
  res.fn = "finishScan" =>
    LET map == arg.state.personAppearances
        newsletters == arg.state.newsletters
    IN \A i \in 1..Len(res.value) :
         LET entry == map[KeyIndex(map, res.value[i].username)]
             ids == {entry.newsletterIds[k] : k \in 1..Len(entry.newsletterIds)}
         IN res.value[i].score =
              WeightOfShared(newsletters, ids, Len(newsletters))
              + QualityBonus(entry.profile)

\* the subscriber count a PageVisit is ordered by: 0 when it has none
VisitCount(page) == IF page.subscriberCount = NoCount THEN 0 ELSE page.subscriberCount

\* the visits come in pairs, subscribers then followers of one newsletter,
\* and the pairs in ascending order of subscriber count
PairedAscending(pages) ==
  /\ Len(pages) % 2 = 0
  /\ \A j \in 1..(Len(pages) \div 2) :
       /\ pages[2 * j - 1].pageType = "subscribers"
       /\ pages[2 * j].pageType = "followers"
       /\ pages[2 * j - 1].newsletterId = pages[2 * j].newsletterId
  /\ \A j, k \in 1..Len(pages) : j < k => VisitCount(pages[j]) <= VisitCount(pages[k])

C21_ReadyOnInitialization ==
  [][(NavLoad \/ UserLoad) =>
       /\ Posted({"READY"})' <=> (stored = NoState)
       /\ readyInFlight' <=> (stored = NoState)
       /\ (pcP' = "settle") <=> (stored # NoState)]_vars

\* a page has loaded over a stored ScanState: the resume is scheduled and
\* no READY went out
C21_Witness ==
  /\ pcP = "settle"
  /\ stored # NoState
  /\ stored.currentPageIndex > 0
  /\ ~Posted({"READY"})
  /\ ~readyInFlight

(* ------------------------------- C22 ---------------------------------- *)
\* C22: every fetch and every navigation of the engine goes to the host
\* substack.com, whatever text the username, the author id and the subdomain
\* hold, and the content script passes the engine's messages on only to
\* chrome.storage.local and to the extension's own messaging.
C22_OnlySubstack ==
  /\ res.fn = "requests" =>
       /\ Host(res.value.profile) = <<"substack.com">>
       /\ Host(res.value.list) = <<"substack.com">>
       /\ Host(res.value.navigation) = <<"substack.com">>
  /\ res.fn = "forward" =>
       \A i \in 1..Len(res.value) :
          res.value[i].sink \in {"chrome.storage.local",
                                 "chrome.runtime.sendMessage"}

\* requests built from values that themselves name another host
C22_Witness ==
  /\ res.fn = "requests"
  /\ arg.username = <<"/", "/", "evil.com">>
  /\ arg.page.subdomain = <<"@", "evil.com">>
  /\ arg.page.authorId = <<"?", "u", "=", "https://", "evil.com">>
  /\ Host(res.value.navigation) = <<"substack.com">>

(* ------------------------------- C23 ---------------------------------- *)
\* C23: a step posts COMPLETE only for a ScanState whose cursor equals the
\* length of pagesToVisit, that state being the one in sessionStorage when the
\* step began (resume past the last visit) or the one the step itself wrote
\* after extracting the last visit; and the COMPLETEs posted never outnumber
\* the START_SCANs handled.
C23_Completion ==
  [][Posted({"COMPLETE"})' =>
       /\ mem'.currentPageIndex = Len(mem'.pagesToVisit)
       /\ pcP \in {"settle", "extracting"}
       /\ pcP = "settle" => stored = mem'
       /\ pcP = "extracting" =>
            /\ mem'.currentPageIndex = mem.currentPageIndex + 1
            /\ mem'.pagesToVisit = mem.pagesToVisit
       /\ stored' = NoState
       /\ unfinished' >= 0]_vars

\* COMPLETE with a match has just been posted for the one scan started
C23_Witness ==
  /\ Posted({"COMPLETE"})
  /\ Len(out[2].matches) > 0
  /\ mem.currentPageIndex = 4
  /\ unfinished = 0

(* ------------------------------- C24 ---------------------------------- *)
\* a ScanState with a non-empty plan is stored
ScanUnderWay == stored # NoState /\ Len(stored.pagesToVisit) > 0

\* C24: with one scan started and never cancelled, every enabled step of the
\* engine, the network and a pending navigation eventually taken, and only
\* finitely many teardowns, a stored ScanState with a non-empty plan leads to
\* COMPLETE.
C24_ForwardProgress ==
  <>[][~Teardown]_vars => (ScanUnderWay ~> Posted({"COMPLETE"}))

(* ------------------------------- C25 ---------------------------------- *)
\* the visit the stored cursor points at
CursorVisit == stored.pagesToVisit[stored.currentPageIndex + 1]

\* C25: when processScan resumes with visits left and the location is not the
\* page of pagesToVisit[cursor], it extracts nothing, keeps the cursor and the
\* appearances as stored and then navigates to that page; it starts an
\* extraction only when the location is that page.
C25_ResumeComparesLocation ==
  [][/\ (pcP = "settle" /\ pcP' # "settle" /\ ScanStored /\ HasNextPage(stored)) =>
          IF loc = PageUrl(CursorVisit)
          THEN pcP' = "extracting"
          ELSE /\ pcP' = "delay"
               /\ stored' = stored
               /\ mem' = stored
     /\ (pcP = "delay" /\ pcP' = "done") =>
          pendingNav' = PageUrl(mem.pagesToVisit[mem.currentPageIndex + 1])]_vars

(* ------------------------------- C26 ---------------------------------- *)
\* the step in which processScan's sleep ends and it assigns the location
ProcessScanNavigates == pcP = "delay" /\ pcP' = "done"

\* the step in which startScan s's sleep ends and it assigns the location
StartScanNavigates(s) == scans[s].pc = "delay" /\ scans'[s].pc = "done"

\* a location is assigned only by a step that ends a sleep of the same page,
\* and a list retrieval starts only as the first step of processScan after a
\* page load
PacedSteps ==
  /\ (pendingNav' # pendingNav /\ pendingNav' # NoNav) =>
       (ProcessScanNavigates \/ \E s \in ScanIds : StartScanNavigates(s))
  /\ (pcP' = "extracting") => pcP \in {"settle", "extracting"}
  /\ (pcP' = "settle" /\ pcP # "settle") => (NavLoad \/ UserLoad)

\* C26 as stated: every navigation follows a completed sleep of the same page,
\* of 2000..4000 ms before the first visit of a scan and of 8000..15000 ms
\* before every later visit, and no two list retrievals happen on one page load.
C26_RateLimiting ==
  [][/\ PacedSteps
     /\ ProcessScanNavigates =>
          IF mem.currentPageIndex = 0
          THEN delay \in FIRST_DELAY_MIN..FIRST_DELAY_MAX
          ELSE delay \in DELAY_MIN..DELAY_MAX
     /\ \A s \in ScanIds :
          StartScanNavigates(s) =>
            scans[s].delay \in FIRST_DELAY_MIN..FIRST_DELAY_MAX]_vars

\* C26, amended: every navigation follows a completed sleep of the same page;
\* the sleep is of 2000..4000 ms when startScan navigates to the first visit
\* and of 8000..15000 ms whenever processScan navigates, the first visit
\* included when a resume finds the cursor still at 0; no two list
\* retrievals happen on one page load.
C26_RateLimitingOnResume ==
  [][/\ PacedSteps
     /\ ProcessScanNavigates =>
          /\ delay \in DELAY_MIN..DELAY_MAX
          /\ pendingNav' = PageUrl(mem.pagesToVisit[mem.currentPageIndex + 1])
     /\ \A s \in ScanIds :
          StartScanNavigates(s) =>
            /\ scans[s].delay \in FIRST_DELAY_MIN..FIRST_DELAY_MAX
            /\ pendingNav' = PageUrl(scans[s].state.pagesToVisit[1])]_vars

\* processScan sleeps the longest delay before it navigates to the first visit
C26_Witness ==
  /\ pcP = "delay"
  /\ delay = DELAY_MAX
  /\ mem.currentPageIndex = 0
  /\ unfinished = 1

(* ------------------------------- C27 ---------------------------------- *)
\* C27: when the page was torn down while processScan slept before
\* pagesToVisit[k] and a page has loaded again, the resumed processScan goes
\* on to that visit without starting a sleep of its own.
C27_InterruptedDelayNotRepeated ==
  [][(/\ pcP = "settle" /\ pcP' # "settle"
      /\ interrupted
      /\ ScanStored /\ HasNextPage(stored)) =>
       /\ pcP' # "delay"
       /\ delay' = 0]_vars

(* ------------------------------- C28 ---------------------------------- *)
\* state with every missing subscriber count replaced by count
WithCount(state, count) ==
  [state EXCEPT !.newsletters =
     [k \in 1..Len(state.newsletters) |->
        IF state.newsletters[k].subscriberCount = NoCount
        THEN [state.newsletters[k] EXCEPT !.subscriberCount = count]
        ELSE state.newsletters[k]]]

\* the ids of the newsletters of state that have no subscriber count
Uncounted(state) ==
  {state.newsletters[k].id : k \in {j \in 1..Len(state.newsletters) :
                                     state.newsletters[j].subscriberCount = NoCount}}

\* C28: finishScan on a state with a newsletter of unknown subscriber count
\* gives the matches, scores and order it gives when that newsletter has
\* exactly 1000 subscribers, and every person it would list then, with that
\* newsletter among the shared ones, is listed.
C28_UnknownCountFallback ==
  res.fn = "finishScan" =>
    LET state == arg.state
        map == state.personAppearances
    IN /\ res.value = Matches(WithCount(state, FALLBACK_COUNT))
       /\ \A k \in 1..Len(map) :
            (/\ Len(map[k].newsletterIds) >= 2
             /\ toLowerCase(map[k].handle) # toLowerCase(state.username)) =>
              \E i \in 1..Len(res.value) :
                 /\ res.value[i].username = map[k].handle
                 /\ res.value[i].score > 0
                 /\ \A id \in Uncounted(state) :
                      (\E n \in 1..Len(map[k].newsletterIds) :
                          map[k].newsletterIds[n] = id) =>
                        \E n \in 1..Len(res.value[i].sharedNewsletters) :
                           res.value[i].sharedNewsletters[n] = id

\* a listed match shares the newsletter without a subscriber count
C28_Witness ==
  /\ res.fn = "finishScan"
  /\ Uncounted(arg.state) = {"n6"}
  /\ \E i \in 1..Len(res.value) :
       /\ \E n \in 1..Len(res.value[i].sharedNewsletters) :
             res.value[i].sharedNewsletters[n] = "n6"
       /\ res.value[i].score >= InverseLog(FALLBACK_COUNT + 2)

(* ------------------------------- C29 ---------------------------------- *)
\* the part of a ScanState that startScan builds: who is scanned and the plan
Plan(state) ==
  [username |-> state.username,
   newsletters |-> state.newsletters,
   pagesToVisit |-> state.pagesToVisit]

\* a startScan writes its initial ScanState in this step
InitialWrite ==
  \E s \in ScanIds : scans[s].pc = "fetching" /\ scans'[s].pc # "fetching"

\* C29: but for the initial write of a startScan, no step changes the
\* username, the newsletters or pagesToVisit of the stored ScanState or of
\* processScan's copy of it, and what an extraction step writes differs from
\* the state it read only in personAppearances and currentPageIndex.
C29_PlanImmutable ==
  [][/\ (stored # NoState /\ stored' # NoState /\ ~InitialWrite) =>
          Plan(stored') = Plan(stored)
     /\ (mem # NoState /\ mem' # NoState) => Plan(mem') = Plan(mem)
     /\ (pcP = "settle" /\ mem' # NoState) => mem' = stored
     /\ (pcP = "extracting" /\ pcP' \in {"delay", "done"}) =>
          /\ [mem' EXCEPT !.personAppearances = mem.personAppearances,
                          !.currentPageIndex = mem.currentPageIndex] = mem
          /\ stored' # NoState => stored' = mem']_vars

\* two visits extracted and written, people recorded, the plan of four
\* visits as it was
C29_Witness ==
  /\ pcP = "delay"
  /\ stored = mem
  /\ stored.currentPageIndex = 2
  /\ Len(stored.pagesToVisit) = 4
  /\ Len(stored.personAppearances) >= 2
  /\ stored.username = "zed"

(* ------------------------------- C30 ---------------------------------- *)
\* the newsletters on one of whose visits the lists hold the handle
ExtractedOn(pages, lists, handle) ==
  {pages[j].newsletterId :
     j \in {v \in 1..Len(pages) :
              \E u \in 1..Len(lists[v]) : lists[v][u].handle = handle}}

\* C30: the sharedNewsletters of every match are exactly the planned
\* newsletters on whose subscribers or followers visit the match's handle
\* was extracted, each once, and at least two.
C30_MatchContents ==
  res.fn = "finishScan" =>
    LET pages == arg.state.pagesToVisit
        planned == {arg.state.newsletters[k].id :
                      k \in 1..Len(arg.state.newsletters)}
    IN \A i \in 1..Len(res.value) :
         LET shared == res.value[i].sharedNewsletters IN
         /\ {shared[n] : n \in 1..Len(shared)}
              = ExtractedOn(pages, arg.lists, res.value[i].username)
         /\ {shared[n] : n \in 1..Len(shared)} \subseteq planned
         /\ NoRepeats(shared)
         /\ Len(shared) >= 2

\* a match that shares two of the three planned newsletters, one of them
\* through both of its visits
C30_Witness ==
  /\ res.fn = "finishScan"
  /\ Len(arg.state.newsletters) = 3
  /\ \E i \in 1..Len(res.value) :
       /\ Len(res.value[i].sharedNewsletters) = 2
       /\ \E j \in {1, 3, 5} :
            /\ \E u \in 1..Len(arg.lists[j]) :
                  arg.lists[j][u].handle = res.value[i].username
            /\ \E u \in 1..Len(arg.lists[j + 1]) :
                  arg.lists[j + 1][u].handle = res.value[i].username

(* ------------------------------- C31 ---------------------------------- *)
\* C31: a START_SCAN that reaches the content script before READY is held,
\* the latest one replacing an earlier one, and is posted to the page once,
\* when READY arrives; a START_SCAN after READY is posted at once; a
\* CANCEL_SCAN is posted at once whether READY was seen or not; nothing else
\* posts a command.
C31_BridgeCommandQueue ==
  [][/\ (issuedStarts' # issuedStarts) =>
          IF injectedReady
          THEN /\ Len(inbox') = Len(inbox) + 1
               /\ inbox'[Len(inbox')].type = "START_SCAN"
               /\ SubSeq(inbox', 1, Len(inbox)) = inbox
               /\ pendingCommand' = pendingCommand
          ELSE /\ inbox' = inbox
               /\ pendingCommand'.type = "START_SCAN"
     /\ (~injectedReady /\ injectedReady') =>
          /\ pendingCommand' = NoCommand
          /\ inbox' = IF pendingCommand = NoCommand THEN inbox
                      ELSE Append(inbox, pendingCommand)
     /\ (issuedCancels' # issuedCancels) =>
          /\ inbox' = Append(inbox, CancelCommand)
          /\ pendingCommand' = pendingCommand
     /\ (Len(inbox') > Len(inbox)) =>
          \/ issuedStarts' # issuedStarts
          \/ issuedCancels' # issuedCancels
          \/ (~injectedReady /\ injectedReady')]_vars

\* two START_SCANs came before READY; READY has arrived and only the second
\* one was posted, once
C31_Witness ==
  /\ injectedReady
  /\ issuedStarts = 2
  /\ pendingCommand = NoCommand
  /\ inbox = <<StartCommand("zed")>>
  /\ started = 0
  /\ elapsed = 0 /\ stored = NoState /\ loc = Home
  /\ issuedCancels = 0

(* ------------------------------- C32 ---------------------------------- *)
\* The popup may start a scan at any moment; nobody reloads the page, so the
\* only page loads are the navigations of the engine, and every step of the
\* bridge and of the engine that can run does run.
StartAgain == \E u \in Usernames : PopupStart(u)

RestartNext ==
  \/ NavLoad
  \/ StartAgain
  \/ BridgeReady
  \/ HandleStartScan
  \/ \E s \in ScanIds, response \in ProfileResponses : FetchReturn(s, response)
  \/ \E s \in ScanIds : StartScanNavigate(s)
  \/ ProcessScanStart
  \/ \E result \in ExtractionResults : ExtractReturn(result)
  \/ ProcessScanNavigate

Restart == Init /\ [][RestartNext]_vars /\ Fairness

\* C32: a START_SCAN the content script holds (it answered 'started') is in
\* the end handled by the engine: startScan runs on that page.
C32_StartAlwaysHandled ==
  (pendingCommand.type = "START_SCAN") ~> (started > 0)

(* -------------------- chrome.storage.local and the popup -------------- *)
\* The records of chrome.storage.local, the content script's listener that
\* writes them, and the popup.  The events of the page script are inputs
\* here; a record's name and newsletterCount fields are copied from the
\* event and left out.
MaxInFlight == 1

\* Date.now() at the moments looked at, in minutes
Clock == {1, 2, ONE_HOUR + 1, ONE_HOUR + 2}

MatchLists == {<<>>, <<"m1">>, <<"m2">>}
DisplayEvents ==
  {StatusProgress, ScanningProgress(1, 2, 0), ScanningProgress(2, 2, 1),
   ErrorEvent}
  \cup {[type |-> "COMPLETE", total |-> 2, matches |-> m] : m \in MatchLists}

\* chrome.storage.local.remove(SCAN_STATE_KEY)
clearScanState(l) == [l EXCEPT !.scanState = NoRecord]

\* chrome.storage.local.set({[STORAGE_KEY]: {matches, timestamp: Date.now()}})
saveResults(l, matches, t) ==
  [l EXCEPT !.results =
     [present |-> TRUE, matches |-> matches, timestamp |-> t]]

\* the display record of a PROGRESS event with step 'scanning'
ScanningRecord(progress, t) ==
  [present |-> TRUE, inProgress |-> TRUE, step |-> "scanning",
   current |-> progress.current, total |-> progress.total,
   matchCount |-> progress.matchCount, timestamp |-> t]

\* saveScanState({ inProgress: true, status: progress.message })
StatusRecord(t) ==
  [present |-> TRUE, inProgress |-> TRUE, step |-> "status", timestamp |-> t]

\* a listener that keeps the display record when the scan fails
ContentStore_KeepsOnError(l, event, t) ==
  IF event.type = "PROGRESS"
  THEN IF event.step = "scanning"
       THEN [l EXCEPT !.scanState = ScanningRecord(event, t)]
       ELSE l
  ELSE IF event.type = "COMPLETE"
       THEN clearScanState(saveResults(l, event.matches, t))
       ELSE l

\* the content script's listener: what it leaves in chrome.storage.local
ContentStore(l, event, t) ==
  IF event.type = "PROGRESS"
  THEN IF event.step = "scanning"
       THEN [l EXCEPT !.scanState = ScanningRecord(event, t)]
       ELSE l
  ELSE IF event.type = "COMPLETE"
       THEN clearScanState(saveResults(l, event.matches, t))
       ELSE IF event.type = "ERROR" THEN clearScanState(l) ELSE l

\* handleProgress
handleProgress(l, progress, t) ==
  IF progress.step = "status"
  THEN [l EXCEPT !.scanState = StatusRecord(t)]
  ELSE IF progress.step = "scanning"
       THEN [l EXCEPT !.scanState = ScanningRecord(progress, t)]
       ELSE l

\* handleComplete
handleComplete(l, matches, t) == saveResults(clearScanState(l), matches, t)

\* a staleness test that counts exactly one hour as stale
Stale_AtOneHour(record, t) ==
  record.timestamp # 0 /\ t - record.timestamp >= ONE_HOUR

\* scanState.timestamp && (Date.now() - scanState.timestamp > ONE_HOUR)
Stale(record, t) ==
  record.timestamp # 0 /\ t - record.timestamp > ONE_HOUR

\* the section shown when no scan is in progress
CachedSection(l) ==
  IF l.results.present /\ Len(l.results.matches) > 0 THEN "results" ELSE "form"

Display_PageUnchanged ==
  UNCHANGED <<stored, elapsed, loc, pendingNav, injectedReady, pendingCommand,
              readyInFlight, inbox, pcP, mem, scans, started, issuedStarts,
              issuedCancels, cancelled, persistedMax, unfinished, delay,
              randoms, interrupted, arg, res>>

Tick ==
  /\ \E c \in Clock : c > now /\ extension' = [extension EXCEPT !.now = c]
  /\ out' = <<>>
  /\ Display_PageUnchanged

\* window message listener of the content script, an event of the page script
ContentMessage(event) ==
  /\ section = "closed" \/ Len(toPopup) < MaxInFlight
  /\ out' = <<event>>
  /\ extension' =
       [extension EXCEPT
          !.local = ContentStore(local, event, now),
          !.toPopup = IF section = "closed" THEN toPopup
                      ELSE Append(toPopup, event)]
  /\ Display_PageUnchanged

\* chrome.runtime.onMessage of the popup
PopupMessage ==
  /\ section # "closed"
  /\ toPopup # <<>>
  /\ LET message == Head(toPopup)
     IN extension' =
          [extension EXCEPT
             !.toPopup = Tail(toPopup),
             !.local = IF message.type = "PROGRESS"
                       THEN handleProgress(local, message, now)
                       ELSE IF message.type = "COMPLETE"
                            THEN handleComplete(local, message.matches, now)
                            ELSE clearScanState(local),
             !.section = IF message.type = "PROGRESS" THEN section
                         ELSE IF message.type = "COMPLETE" THEN "results"
                              ELSE "form"]
  /\ out' = <<>>
  /\ Display_PageUnchanged

\* DOMContentLoaded of the popup
PopupOpen(isSubstack) ==
  /\ section = "closed"
  /\ extension' =
       IF ~isSubstack
       THEN [extension EXCEPT !.section = "not-substack"]
       ELSE IF local.scanState.present /\ local.scanState.inProgress
            THEN IF Stale(local.scanState, now)
                 THEN [extension EXCEPT !.local = clearScanState(local),
                                        !.section = CachedSection(local)]
                 ELSE [extension EXCEPT !.section = "progress"]
            ELSE [extension EXCEPT !.section = CachedSection(local)]
  /\ out' = <<>>
  /\ Display_PageUnchanged

\* the popup is closed: its listener is gone
PopupClose ==
  /\ section # "closed"
  /\ extension' = [extension EXCEPT !.section = "closed", !.toPopup = <<>>]
  /\ out' = <<>>
  /\ Display_PageUnchanged

\* startScan of the popup
StartClick(u) ==
  /\ section = "form"
  /\ extension' = [extension EXCEPT !.local = clearScanState(local),
                                    !.section = "progress"]
  /\ StartScanMessage(u)

\* click on cancelBtn
CancelClick ==
  /\ section = "progress"
  /\ extension' = [extension EXCEPT !.local = clearScanState(local),
                                    !.section = "form"]
  /\ CancelScanMessage

\* click on rescanBtn
RescanClick ==
  /\ section = "results"
  /\ extension' = [extension EXCEPT !.section = "form"]
  /\ out' = <<>>
  /\ Display_PageUnchanged

DisplayNext ==
  \/ Tick
  \/ \E event \in DisplayEvents : ContentMessage(event)
  \/ PopupMessage
  \/ \E isSubstack \in BOOLEAN : PopupOpen(isSubstack)
  \/ PopupClose
  \/ \E u \in Usernames : StartClick(u)
  \/ CancelClick
  \/ RescanClick

Display == Init /\ [][DisplayNext]_vars

(* ------------------------------- C33 ---------------------------------- *)
\* this step is the content script's listener receiving event
ContentReceives(event) == out' = <<event>>

\* this step is the popup's listener receiving event
PopupReceives(event) ==
  /\ out' = <<>>
  /\ section' # "closed"
  /\ toPopup # <<>>
  /\ toPopup' = Tail(toPopup)
  /\ event = Head(toPopup)

Receives(event) == ContentReceives(event) \/ PopupReceives(event)

\* C33: the results record changes only in a step that receives a COMPLETE
\* event, and then holds that event's matches and the time of the write; a
\* step that receives PROGRESS or ERROR, or that sends CANCEL_SCAN, leaves
\* it as it was; after a step that receives COMPLETE or ERROR the display
\* record is gone.
C33_ResultsRecordFrame ==
  [][/\ (local'.results # local.results) =>
          \E event \in DisplayEvents :
             /\ event.type = "COMPLETE"
             /\ Receives(event)
             /\ local'.results = [present |-> TRUE, matches |-> event.matches,
                                  timestamp |-> now]
     /\ \A event \in DisplayEvents :
          (event.type \in {"PROGRESS", "ERROR"} /\ Receives(event))
             => local'.results = local.results
     /\ (issuedCancels' # issuedCancels) => local'.results = local.results
     /\ \A event \in DisplayEvents :
          (event.type \in {"COMPLETE", "ERROR"} /\ Receives(event))
             => local'.scanState = NoRecord]_vars

\* results are stored; later a scan was shown in progress and failed: the
\* display record is gone and the results are the ones stored before
C33_Witness ==
  /\ out = <<ErrorEvent>>
  /\ local.results.present
  /\ local.results.matches = <<"m1">>
  /\ local.results.timestamp < now
  /\ local.scanState = NoRecord
  /\ section = "progress"

(* ------------------------------- C34 ---------------------------------- *)
\* the content script's listener would write the display record for event
WritesDisplayRecord(event) ==
  ContentStore([results |-> NoRecord, scanState |-> NoRecord], event, now)
     .scanState.present

\* C34: once the one START_SCAN issued so far has been handled and a
\* CANCEL_SCAN sent after it has been handled too, no step of the engine
\* posts an event for which the content script writes the display record
\* again, as long as no new START_SCAN is issued.
C34_DisplayStaysCleared ==
  [][(cancelled /\ issuedStarts = 1 /\ unfinished = 1
        /\ issuedStarts' = issuedStarts)
       => \A i \in 1..Len(out') : ~WritesDisplayRecord(out'[i])]_vars

(* ------------------------------- C35 ---------------------------------- *)
\* C35: when the popup opens on a Substack tab and the display record says
\* a scan is in progress, it shows the progress section and keeps the
\* record if the record is at most one hour old (exactly one hour
\* included); otherwise it removes the record and shows the stored results,
\* or the form if there are none.
C35_PopupStaleness ==
  [][(/\ section = "closed"
      /\ section' \notin {"closed", "not-substack"}
      /\ local.scanState.present
      /\ local.scanState.inProgress)
       => IF now - local.scanState.timestamp <= ONE_HOUR
          THEN section' = "progress" /\ local' = local
          ELSE /\ local'.scanState = NoRecord
               /\ local'.results = local.results
               /\ section' = IF /\ local.results.present
                                /\ local.results.matches # <<>>
                             THEN "results" ELSE "form"]_vars

\* the popup shows the progress of a record that is exactly one hour old
C35_Witness ==
  /\ section = "progress"
  /\ local.scanState.present
  /\ local.scanState.inProgress
  /\ now - local.scanState.timestamp = ONE_HOUR
  /\ toPopup = <<>>

(* ------------------------------- C36 ---------------------------------- *)
\* C36: a page loads with a ScanState stored, so processScan is scheduled;
\* when the stored state is gone by the time processScan starts (only a
\* CANCEL_SCAN handled during the wait removes it), processScan returns at
\* once: it posts no event, extracts nothing, writes no state and asks for
\* no navigation, and until the next page load nothing is posted, written
\* or navigated.
C36_CancelDuringSettle ==
  [][/\ (pcP = "settle" /\ stored = NoState /\ pcP' \notin {"settle", "idle"})
          => /\ pcP' = "done"
             /\ out' = <<>>
             /\ stored' = NoState
             /\ mem' = mem
             /\ pendingNav' = pendingNav
     /\ (pcP = "done" /\ stored = NoState /\ pendingNav = NoNav /\ pcP' = "done")
          => /\ out' = <<>>
             /\ stored' = NoState
             /\ pendingNav' = pendingNav]_vars

\* the cancel came during the wait and processScan has returned
C36_Witness ==
  /\ pcP = "done"
  /\ cancelled
  /\ stored = NoState
  /\ unfinished = 1
  /\ inbox = <<>>
  /\ pendingNav = NoNav
  /\ mem = NoState

(* ------------------------------- C37 ---------------------------------- *)
\* C37: the cursor of every ScanState written to the session storage is at
\* least 0 and at most the number of planned visits, and, but for the first
\* write of a startScan, a written cursor is never below the one stored
\* before it nor below any cursor written earlier in the same scan.
C37_CursorInvariant ==
  [][(stored' # stored /\ stored' # NoState) =>
       /\ 0 <= stored'.currentPageIndex
       /\ stored'.currentPageIndex <= Len(stored'.pagesToVisit)
       /\ ~InitialWrite =>
            /\ stored'.currentPageIndex >= persistedMax
            /\ stored # NoState =>
                 stored'.currentPageIndex >= stored.currentPageIndex]_vars

\* the cursor was written three times after the initial write, in a scan
\* that a cancel did not stop
C37_Witness ==
  /\ stored # NoState
  /\ stored.currentPageIndex = 3
  /\ persistedMax = 3
  /\ Len(stored.pagesToVisit) = 4
  /\ cancelled

(* ------------------------------- C38 ---------------------------------- *)
\* no key of the state's map is the empty handle, and every newsletter id
\* recorded for a person is the id of a visit before the cursor
Provenance(state) ==
  \A k \in 1..Len(state.personAppearances) :
     /\ state.personAppearances[k].handle # ""
     /\ \A i \in 1..Len(state.personAppearances[k].newsletterIds) :
          \E j \in 1..state.currentPageIndex :
             /\ j <= Len(state.pagesToVisit)
             /\ state.pagesToVisit[j].newsletterId =
                  state.personAppearances[k].newsletterIds[i]

\* every handle of old is a handle of new, with at least the same ids
Grows(old, new) ==
  \A k \in 1..Len(old) :
     \E n \in 1..Len(new) :
        /\ new[n].handle = old[k].handle
        /\ \A i \in 1..Len(old[k].newsletterIds) :
             Includes(new[n].newsletterIds, old[k].newsletterIds[i])

\* C38: in every ScanState written or held by processScan no key of the
\* appearance map is an empty handle and every recorded newsletter id
\* belongs to a visit before the cursor; within a scan a write never
\* removes a handle nor an id from a person's set.
C38_AppearanceProvenance ==
  [][/\ (stored' # stored /\ stored' # NoState) => Provenance(stored')
     /\ (mem' # mem /\ mem' # NoState) => Provenance(mem')
     /\ (stored' # stored /\ stored # NoState /\ stored' # NoState
           /\ ~InitialWrite)
          => Grows(stored.personAppearances, stored'.personAppearances)
     /\ (mem' # mem /\ mem # NoState /\ mem' # NoState)
          => Grows(mem.personAppearances, mem'.personAppearances)]_vars

\* three visits written; somebody was found on visits of two newsletters
C38_Witness ==
  /\ stored # NoState
  /\ stored.currentPageIndex = 3
  /\ \E k \in 1..Len(stored.personAppearances) :
        Len(stored.personAppearances[k].newsletterIds) = 2
  /\ Len(stored.personAppearances) >= 2

(* ------------------------------- C39 ---------------------------------- *)
\* the states a PROGRESS event of this step can be about: processScan's and
\* those of the startScan invocations of this page
ReportedStates ==
  {state \in {mem} \cup {scans[s].state : s \in ScanIds} : state # NoState}

\* the handles that are keys of the appearance map
Handles(appearances) ==
  {appearances[k].handle : k \in 1..Len(appearances)}

\* C39: every PROGRESS event with step 'scanning' is about a ScanState of the
\* page: its total is the number of planned visits, its current is at
\* least 1 and at most total, and its matchCount is the number of distinct
\* handles of the appearance map.
C39_ProgressBounds ==
  \A i \in 1..Len(out) :
     (out[i].type = "PROGRESS" /\ out[i].step = "scanning") =>
        \E state \in ReportedStates :
           /\ out[i].total = Len(state.pagesToVisit)
           /\ 1 <= out[i].current
           /\ out[i].current <= out[i].total
           /\ out[i].matchCount = Cardinality(Handles(state.personAppearances))

\* the last visit of a plan of four is reported, with two people found
C39_Witness ==
  /\ out = <<ScanningProgress(4, 4, 2)>>
  /\ pcP = "delay"
  /\ \E k \in 1..Len(mem.personAppearances) :
        Len(mem.personAppearances[k].newsletterIds) = 1

====
